---- MODULE Spec2Model ----
(***************************************************************************)
(* A model of greetd's session worker (src/greetd/src/session/worker.rs)   *)
(* and of the PAM conversation callback (src/greetd/src/pam/ffi.rs).       *)
(*                                                                         *)
(* Spec      : worker() and main() run by the worker process and, after    *)
(*             fork(), by the forked child.                                *)
(* ConvSpec  : one call of converse() on a batch of native messages.       *)
(***************************************************************************)
EXTENDS Naturals, Sequences, FiniteSets

VARIABLES
    pc,          \* [Procs -> location]: where each process is in worker()/main()
    err,         \* [Procs -> the Err(e) worker() returned, "none" if none]
    log,         \* [Procs -> sequence of the external calls the process made]
    sent,        \* messages delivered to the parent over the control socket
    sockState,   \* "open" | "shutdown": the control socket (shared after fork)
    environ,     \* the worker's own process environment: which variables are set
    login,       \* payload of the accepted InitiateLogin
    cmd,         \* payload of the accepted Args
    pwd,         \* the working directory chosen at lines 174-181
    prepared_env,\* the array built at lines 188-201
    envIdx,      \* position of the loop of lines 203-205
    command,     \* the shell command built at lines 212-219
    envvec,      \* the PAM environment fetched at lines 222-223
    image,       \* what the forked child exec'd (<<>> until execve succeeds)
    eintr,       \* number of interrupted waits so far
    data,        \* recv(): the datagram sock.recv() has read and that is yet to be decoded
    \* ---- one call of converse() (pam/ffi.rs) ----
    cpc,         \* where the call is: "calloc", "loop", "cleanup", "returned", "panicked"
    num_msg,     \* the batch: its length ..
    msg,         \* .. and its messages, [msg_style, utf8]
    resp,        \* the response array: per entry "NULL" or "str" (<<>>: not allocated)
    idx,         \* the loop variable i of line 40 (1-based)
    result,      \* the local `result`
    heap,        \* the allocations of this call that have not been freed
    out_resp,    \* what the call wrote to *out_resp ("unwritten" if nothing)
    ret,         \* the code the call returned ("none" while it has not returned)
    calls        \* the handler capabilities invoked, in order

workerVars == <<pc, err, log, sent, sockState, environ, login, cmd, pwd,
                prepared_env, envIdx, command, envvec, image, eintr, data>>

convVars == <<cpc, num_msg, msg, resp, idx, result, heap, out_resp, ret, calls>>

vars == <<workerVars, convVars>>

Procs == {"worker", "child"}

\* How many times the wait of lines 270-279 may be interrupted in the model.
MaxEintr == 2

\* Virtual consoles the model distinguishes.
MaxVt == 2

\* Longest batch of native messages handed to converse() in the model.
MaxMsgs == 2

----------------------------------------------------------------------------
(* Messages                                                                *)

TerminalMode ==
    {[kind |-> "Stdin", vt |-> 0, switch |-> FALSE]} \cup
    [kind : {"Terminal"}, vt : 1..MaxVt, switch : BOOLEAN]

NoArgs == <<>>

Commands == {<<"prog", "arg">>, <<"pr\\0g">>}

InitiateLoginMsgs ==
    [kind : {"InitiateLogin"}, authenticate : BOOLEAN, tty : TerminalMode,
     source_profile : BOOLEAN, cmd : {NoArgs}]

BlankPayload(k) ==
    [kind |-> k, authenticate |-> FALSE,
     tty |-> [kind |-> "Stdin", vt |-> 0, switch |-> FALSE],
     source_profile |-> FALSE, cmd |-> NoArgs]

ArgsMsgs == {[BlankPayload("Args") EXCEPT !.cmd = c] : c \in Commands}

ParentToSessionChild ==
    InitiateLoginMsgs \cup ArgsMsgs \cup
    {BlankPayload("PamResponse"), BlankPayload("Start"), BlankPayload("Cancel")}

\* let mut data = [0; 10240]
BufLen == 10240

Min(a, b) == IF a <= b THEN a ELSE b

\* Lengths of the JSON text of a message: Start and Cancel are a few bytes,
\* a message with a payload can be of any length.
EncodedLens(m) ==
    IF m.kind \in {"Start", "Cancel"} THEN {8} ELSE {128, BufLen, BufLen + 1}

\* What one receipt can find on the socket: the JSON text of a message (len
\* bytes), possibly followed by white space (pad bytes); bytes that are a cut
\* JSON text or no JSON text of a message at all; or recv(2) fails.
Datagrams ==
    UNION {[io : {"ok"}, body : {"json"}, msg : {m}, len : EncodedLens(m),
            pad : {0, BufLen}] : m \in ParentToSessionChild}
    \cup [io : {"ok"}, body : {"truncated", "malformed"},
          msg : {BlankPayload("Garbage")}, len : {8, BufLen + 1}, pad : {0}]
    \cup [io : {"error"}, body : {"malformed"}, msg : {BlankPayload("Garbage")},
          len : {8}, pad : {0}]

\* No datagram has been read (recv() is not running).
NoData ==
    [io |-> "none", body |-> "malformed", msg |-> BlankPayload("Garbage"),
     len |-> 0, pad |-> 0]

\* ParentToSessionChild::recv on datagram d: sock.recv fills data with at most
\* BufLen bytes of it (the rest of the datagram is discarded), and
\* serde_json::from_slice decodes data[..len]: a complete JSON text of a
\* message, followed by nothing but white space. Ok(msg) or Err.
recv(d) ==
    LET n == Min(d.len + d.pad, BufLen) IN
    IF d.io # "ok" THEN [ok |-> FALSE, msg |-> d.msg]
    ELSE IF d.body = "json" /\ d.len <= n THEN [ok |-> TRUE, msg |-> d.msg]
    ELSE [ok |-> FALSE, msg |-> d.msg]

SessionChildToParent == {"Success", "Error", "PamMessage", "FinalChildPid"}

----------------------------------------------------------------------------
(* Control flow helpers                                                    *)

Goto(p, loc) == pc' = [pc EXCEPT ![p] = loc]

Logged(p, op, arg, ok) ==
    log' = [log EXCEPT ![p] = Append(@, [op |-> op, arg |-> arg, ok |-> ok])]

\* `return Err(e)` / the `?` operator: worker() returns Err(e) to main().
ReturnErr(p, e) ==
    /\ pc' = [pc EXCEPT ![p] = "main_err"]
    /\ err' = [err EXCEPT ![p] = e]

ExpectAsQuestionMark(p, e) == ReturnErr(p, e)

\* `.expect(..)` / `.unwrap()` on a failure: the process panics; neither
\* worker() nor main() runs any further statement in it.
Panic(p, e) ==
    /\ pc' = [pc EXCEPT ![p] = "panicked"]
    /\ UNCHANGED err

\* lines 236-255: what the forked child does when a step of its arm fails.
ExpectFailed(p, e) == Panic(p, e)

\* One fallible external call made at location `at`: Ok moves on to `next`,
\* Err is propagated with `?`.
Call(p, at, op, arg, next) ==
    /\ pc[p] = at
    /\ \E ok \in BOOLEAN :
         /\ Logged(p, op, arg, ok)
         /\ IF ok THEN Goto(p, next) /\ UNCHANGED err
                  ELSE ReturnErr(p, op)

\* SessionChildToParent::send: fails on a socket that was shut down and may
\* fail on an open one; a message that was sent is delivered.
send(p, kind, detail, ok) ==
    /\ ok => sockState = "open"
    /\ Logged(p, "send", kind, ok)
    /\ sent' = IF ok THEN Append(sent, [from |-> p, kind |-> kind, detail |-> detail])
                     ELSE sent

----------------------------------------------------------------------------
(* worker(), lines 83-126: the handshake                                   *)

Mismatch(expected) == "expected " \o expected \o " or Cancel"

MatchArmAcceptsAny(expected, kind) ==
    IF kind = "Cancel" THEN "cancel" ELSE "accept"

MatchArmNoCancel(expected, kind) ==
    IF kind = expected THEN "accept" ELSE "mismatch"

\* The arm the `match` of lines 85-96, 113-117 and 122-126 takes for a decoded
\* message: the expected variant, Cancel, or the catch-all `msg =>`.
MatchArm(expected, kind) ==
    IF kind = expected THEN "accept"
    ELSE IF kind = "Cancel" THEN "cancel"
    ELSE "mismatch"

RecvLocs == {"recv_init", "recv_args", "recv_start"}

\* line 58: sock.recv(&mut data[..]) returns with the next datagram (it blocks
\* until the parent has sent one)
SockRecv(p) ==
    /\ pc[p] \in RecvLocs
    /\ data = NoData
    /\ data' \in Datagrams
    /\ UNCHANGED <<pc, err, log, sent, sockState, environ, login, cmd, pwd,
                   prepared_env, envIdx, command, envvec, image, eintr>>
    /\ UNCHANGED convVars

\* lines 84-96
RecvInitiateLogin(p) ==
    /\ pc[p] = "recv_init"
    /\ data # NoData
    /\ data' = NoData
    /\ LET r == recv(data) IN
         /\ Logged(p, "recv", IF r.ok THEN r.msg.kind ELSE "Err", r.ok)
         /\ IF ~r.ok THEN ReturnErr(p, "recv") /\ UNCHANGED login
            ELSE IF MatchArm("InitiateLogin", r.msg.kind) = "accept"
                 THEN /\ login' = r.msg
                      /\ Goto(p, "pam_start")
                      /\ UNCHANGED err
            ELSE IF MatchArm("InitiateLogin", r.msg.kind) = "cancel"
                 THEN ReturnErr(p, "cancelled") /\ UNCHANGED login
            ELSE ReturnErr(p, Mismatch("InitiateLogin")) /\ UNCHANGED login
    /\ UNCHANGED <<sent, sockState, environ, cmd, pwd, prepared_env, envIdx,
                   command, envvec, image, eintr>>
    /\ UNCHANGED convVars

AfterStartNoAuth(authenticate) == "acct_mgmt"

\* lines 101-104: `if authenticate { pam.authenticate(..)?; }`
AfterStart(authenticate) == IF authenticate THEN "authenticate" ELSE "acct_mgmt"

\* lines 98-99
PamStart(p) ==
    /\ Call(p, "pam_start", "start", "", AfterStart(login.authenticate))
    /\ UNCHANGED <<sent, sockState, environ, login, cmd, pwd, prepared_env,
                   envIdx, command, envvec, image, eintr>>
    /\ UNCHANGED <<data, convVars>>

\* lines 101-103
Authenticate(p) ==
    /\ Call(p, "authenticate", "authenticate", "NONE", "acct_mgmt")
    /\ UNCHANGED <<sent, sockState, environ, login, cmd, pwd, prepared_env,
                   envIdx, command, envvec, image, eintr>>
    /\ UNCHANGED <<data, convVars>>

\* line 104
AcctMgmt(p) ==
    /\ Call(p, "acct_mgmt", "acct_mgmt", "NONE", "setcred_establish")
    /\ UNCHANGED <<sent, sockState, environ, login, cmd, pwd, prepared_env,
                   envIdx, command, envvec, image, eintr>>
    /\ UNCHANGED <<data, convVars>>

\* line 107
SetcredEstablish(p) ==
    /\ Call(p, "setcred_establish", "setcred", "ESTABLISH_CRED", "send_success1")
    /\ UNCHANGED <<sent, sockState, environ, login, cmd, pwd, prepared_env,
                   envIdx, command, envvec, image, eintr>>
    /\ UNCHANGED <<data, convVars>>

\* A send inside worker(): `X.send(sock)?`.
SendOrReturn(p, at, kind, next) ==
    /\ pc[p] = at
    /\ \E ok \in BOOLEAN :
         /\ send(p, kind, "", ok)
         /\ IF ok THEN Goto(p, next) /\ UNCHANGED err
                  ELSE ReturnErr(p, "send")

\* line 110
SendAuthSuccess(p) ==
    /\ SendOrReturn(p, "send_success1", "Success", "recv_args")
    /\ UNCHANGED <<sockState, environ, login, cmd, pwd, prepared_env, envIdx,
                   command, envvec, image, eintr>>
    /\ UNCHANGED <<data, convVars>>

\* lines 113-117
RecvArgs(p) ==
    /\ pc[p] = "recv_args"
    /\ data # NoData
    /\ data' = NoData
    /\ LET r == recv(data) IN
         /\ Logged(p, "recv", IF r.ok THEN r.msg.kind ELSE "Err", r.ok)
         /\ IF ~r.ok THEN ReturnErr(p, "recv") /\ UNCHANGED cmd
            ELSE IF MatchArm("Args", r.msg.kind) = "accept"
                 THEN /\ cmd' = r.msg.cmd
                      /\ Goto(p, "send_success2")
                      /\ UNCHANGED err
            ELSE IF MatchArm("Args", r.msg.kind) = "cancel"
                 THEN ReturnErr(p, "cancelled") /\ UNCHANGED cmd
            ELSE ReturnErr(p, Mismatch("Args")) /\ UNCHANGED cmd
    /\ UNCHANGED <<sent, sockState, environ, login, pwd, prepared_env, envIdx,
                   command, envvec, image, eintr>>
    /\ UNCHANGED convVars

\* line 119
SendArgsSuccess(p) ==
    /\ SendOrReturn(p, "send_success2", "Success", "recv_start")
    /\ UNCHANGED <<sockState, environ, login, cmd, pwd, prepared_env, envIdx,
                   command, envvec, image, eintr>>
    /\ UNCHANGED <<data, convVars>>

\* lines 122-126
RecvStart(p) ==
    /\ pc[p] = "recv_start"
    /\ data # NoData
    /\ data' = NoData
    /\ LET r == recv(data) IN
         /\ Logged(p, "recv", IF r.ok THEN r.msg.kind ELSE "Err", r.ok)
         /\ IF ~r.ok THEN ReturnErr(p, "recv")
            ELSE IF MatchArm("Start", r.msg.kind) = "accept"
                 THEN Goto(p, "get_user") /\ UNCHANGED err
            ELSE IF MatchArm("Start", r.msg.kind) = "cancel"
                 THEN ReturnErr(p, "cancelled")
            ELSE ReturnErr(p, Mismatch("Start"))
    /\ UNCHANGED <<sent, sockState, environ, login, cmd, pwd, prepared_env,
                   envIdx, command, envvec, image, eintr>>
    /\ UNCHANGED convVars

----------------------------------------------------------------------------
(* worker(), lines 128-164: user lookup, session leader, terminal          *)

\* line 128
GetUser(p) ==
    /\ Call(p, "get_user", "get_user", "", "get_user_by_name")
    /\ UNCHANGED <<sent, sockState, environ, login, cmd, pwd, prepared_env,
                   envIdx, command, envvec, image, eintr>>
    /\ UNCHANGED <<data, convVars>>

\* line 130
GetUserByName(p) ==
    /\ Call(p, "get_user_by_name", "get_user_by_name", "", "setsid")
    /\ UNCHANGED <<sent, sockState, environ, login, cmd, pwd, prepared_env,
                   envIdx, command, envvec, image, eintr>>
    /\ UNCHANGED <<data, convVars>>

\* lines 133-137
Setsid(p) ==
    /\ Call(p, "setsid", "setsid", "",
            IF login.tty.kind = "Stdin" THEN "chdir_home" ELSE "set_item_tty")
    /\ UNCHANGED <<sent, sockState, environ, login, cmd, pwd, prepared_env,
                   envIdx, command, envvec, image, eintr>>
    /\ UNCHANGED <<data, convVars>>

\* line 139
SetItemTty(p) ==
    /\ Call(p, "set_item_tty", "set_item", "TTY", "putenv_vtnr")
    /\ UNCHANGED <<sent, sockState, environ, login, cmd, pwd, prepared_env,
                   envIdx, command, envvec, image, eintr>>
    /\ UNCHANGED <<data, convVars>>

\* line 140
PutenvVtnr(p) ==
    /\ Call(p, "putenv_vtnr", "putenv", "XDG_VTNR", "term_open")
    /\ UNCHANGED <<sent, sockState, environ, login, cmd, pwd, prepared_env,
                   envIdx, command, envvec, image, eintr>>
    /\ UNCHANGED <<data, convVars>>

\* line 143
TermOpen(p) ==
    /\ Call(p, "term_open", "Terminal::open", "", "kd_setmode")
    /\ UNCHANGED <<sent, sockState, environ, login, cmd, pwd, prepared_env,
                   envIdx, command, envvec, image, eintr>>
    /\ UNCHANGED <<data, convVars>>

\* line 148
KdSetmode(p) ==
    /\ Call(p, "kd_setmode", "kd_setmode", "Text", "term_clear")
    /\ UNCHANGED <<sent, sockState, environ, login, cmd, pwd, prepared_env,
                   envIdx, command, envvec, image, eintr>>
    /\ UNCHANGED <<data, convVars>>

\* lines 151-154: `switch && ..` evaluates vt_get_current only if switch is set
TermClear(p) ==
    /\ Call(p, "term_clear", "term_clear", "",
            IF login.tty.switch THEN "vt_get_current" ELSE "term_connect_pipes")
    /\ UNCHANGED <<sent, sockState, environ, login, cmd, pwd, prepared_env,
                   envIdx, command, envvec, image, eintr>>
    /\ UNCHANGED <<data, convVars>>

AfterGetCurrentAlwaysSwitches(vt, cur) == "vt_setactivate"

\* lines 154-158: `vt != target_term.vt_get_current()?` guards vt_setactivate
AfterGetCurrent(vt, cur) ==
    IF vt # cur THEN "vt_setactivate" ELSE "term_connect_pipes"

\* line 154: the kernel reports the active console, or the ioctl fails
VtGetCurrent(p) ==
    /\ pc[p] = "vt_get_current"
    /\ \/ \E cur \in 1..MaxVt :
            /\ Logged(p, "vt_get_current",
                      IF cur = login.tty.vt THEN "target" ELSE "other", TRUE)
            /\ Goto(p, AfterGetCurrent(login.tty.vt, cur))
            /\ UNCHANGED err
       \/ /\ Logged(p, "vt_get_current", "", FALSE)
          /\ ReturnErr(p, "vt_get_current")
    /\ UNCHANGED <<sent, sockState, environ, login, cmd, pwd, prepared_env,
                   envIdx, command, envvec, image, eintr>>
    /\ UNCHANGED <<data, convVars>>

\* line 157
VtSetactivate(p) ==
    /\ Call(p, "vt_setactivate", "vt_setactivate", "", "term_connect_pipes")
    /\ UNCHANGED <<sent, sockState, environ, login, cmd, pwd, prepared_env,
                   envIdx, command, envvec, image, eintr>>
    /\ UNCHANGED <<data, convVars>>

\* line 161
TermConnectPipes(p) ==
    /\ Call(p, "term_connect_pipes", "term_connect_pipes", "", "term_take_ctty")
    /\ UNCHANGED <<sent, sockState, environ, login, cmd, pwd, prepared_env,
                   envIdx, command, envvec, image, eintr>>
    /\ UNCHANGED <<data, convVars>>

\* line 162
TermTakeCtty(p) ==
    /\ Call(p, "term_take_ctty", "term_take_ctty", "", "chdir_home")
    /\ UNCHANGED <<sent, sockState, environ, login, cmd, pwd, prepared_env,
                   envIdx, command, envvec, image, eintr>>
    /\ UNCHANGED <<data, convVars>>

----------------------------------------------------------------------------
(* worker(), lines 166-208: working directory, environment, open_session   *)

\* lines 174-176: set_current_dir(home)
ChdirHome(p) ==
    /\ pc[p] = "chdir_home"
    /\ \E ok \in BOOLEAN :
         /\ Logged(p, "set_current_dir", "home", ok)
         /\ IF ok THEN pwd' = "home" /\ Goto(p, "prepare_env")
                  ELSE pwd' = pwd /\ Goto(p, "chdir_root")
    /\ UNCHANGED <<err, sent, sockState, environ, login, cmd, prepared_env,
                   envIdx, command, envvec, image, eintr>>
    /\ UNCHANGED <<data, convVars>>

\* lines 177-179: set_current_dir("/") with `?`
ChdirRoot(p) ==
    /\ pc[p] = "chdir_root"
    /\ \E ok \in BOOLEAN :
         /\ Logged(p, "set_current_dir", "/", ok)
         /\ IF ok THEN pwd' = "/" /\ Goto(p, "prepare_env") /\ UNCHANGED err
                  ELSE pwd' = pwd /\ ReturnErr(p, "unable to set working directory")
    /\ UNCHANGED <<sent, sockState, environ, login, cmd, prepared_env,
                   envIdx, command, envvec, image, eintr>>
    /\ UNCHANGED <<data, convVars>>

\* The names of lines 189-200, in array order.
PreparedNames ==
    <<"XDG_SEAT", "XDG_SESSION_CLASS", "USER", "LOGNAME", "HOME", "SHELL",
      "PWD", "GREETD_SOCK", "TERM">>

PreparedValueHomeAsPwd(name) ==
    CASE name = "XDG_SEAT" -> "seat0"
      [] name = "XDG_SESSION_CLASS" -> "class"
      [] name = "USER" -> "username"
      [] name = "LOGNAME" -> "username"
      [] name = "HOME" -> "home"
      [] name = "SHELL" -> "shell"
      [] name = "PWD" -> "home"
      [] name = "GREETD_SOCK" -> "sock"
      [] name = "TERM" -> IF environ.TERM THEN "inherited" ELSE "linux"

\* The value formatted for each name.
PreparedValue(name) ==
    CASE name = "XDG_SEAT" -> "seat0"
      [] name = "XDG_SESSION_CLASS" -> "class"
      [] name = "USER" -> "username"
      [] name = "LOGNAME" -> "username"
      [] name = "HOME" -> "home"
      [] name = "SHELL" -> "shell"
      [] name = "PWD" -> pwd
      [] name = "GREETD_SOCK" -> "sock"
      [] name = "TERM" -> IF environ.TERM THEN "inherited" ELSE "linux"

\* line 196: env::var("GREETD_SOCK").unwrap() when the variable is not set
MissingSock(p) == Panic(p, "GREETD_SOCK not set")

\* lines 188-201
PrepareEnv(p) ==
    /\ pc[p] = "prepare_env"
    /\ IF environ.GREETD_SOCK
       THEN /\ prepared_env' =
                 [i \in 1..Len(PreparedNames) |->
                     [name |-> PreparedNames[i],
                      value |-> PreparedValue(PreparedNames[i])]]
            /\ envIdx' = 1
            /\ Goto(p, "putenv")
            /\ UNCHANGED err
       ELSE /\ MissingSock(p)
            /\ UNCHANGED <<prepared_env, envIdx>>
    /\ UNCHANGED <<log, sent, sockState, environ, login, cmd, pwd,
                   command, envvec, image, eintr>>
    /\ UNCHANGED <<data, convVars>>

LoopNextSkipsLast(i, n) == IF i >= n - 1 THEN "open_session" ELSE "putenv"

\* lines 203-208: after the i-th of n elements the loop goes on, or is over
\* and open_session is next.
LoopNext(i, n) == IF i = n THEN "open_session" ELSE "putenv"

\* lines 203-205: one iteration of the loop
Putenv(p) ==
    /\ pc[p] = "putenv"
    /\ envIdx <= Len(prepared_env)
    /\ \E ok \in BOOLEAN :
         /\ Logged(p, "putenv", prepared_env[envIdx].name, ok)
         /\ IF ok THEN /\ envIdx' = envIdx + 1
                       /\ Goto(p, LoopNext(envIdx, Len(prepared_env)))
                       /\ UNCHANGED err
                  ELSE /\ envIdx' = envIdx
                       /\ ReturnErr(p, "putenv")
    /\ UNCHANGED <<sent, sockState, environ, login, cmd, pwd, prepared_env,
                   command, envvec, image, eintr>>
    /\ UNCHANGED <<data, convVars>>

\* line 208
OpenSession(p) ==
    /\ Call(p, "open_session", "open_session", "NONE", "build_command")
    /\ UNCHANGED <<sent, sockState, environ, login, cmd, pwd, prepared_env,
                   envIdx, command, envvec, image, eintr>>
    /\ UNCHANGED <<data, convVars>>

----------------------------------------------------------------------------
(* worker(), lines 210-259: command, environment list, fork, child arm     *)

RECURSIVE join(_)
\* cmd.join(" ")
join(words) ==
    IF words = <<>> THEN ""
    ELSE IF Len(words) = 1 THEN words[1]
    ELSE words[1] \o " " \o join(Tail(words))

\* Strings of the model that stand for text with an interior NUL byte.
NulStrings == {"pr\\0g"}

HasNul(words) == \E i \in 1..Len(words) : words[i] \in NulStrings

ProfilePrefix ==
    "[ -f /etc/profile ] && . /etc/profile; [ -f $HOME/.profile ] && . $HOME/.profile; "

\* lines 211-219 (a user name read from the user database holds no NUL byte,
\* so CString::new(username) succeeds)
BuildCommand(p) ==
    /\ pc[p] = "build_command"
    /\ command' = IF login.source_profile
                  THEN ProfilePrefix \o "exec " \o join(cmd)
                  ELSE "exec " \o join(cmd)
    /\ Goto(p, "getenvlist")
    /\ UNCHANGED <<err, log, sent, sockState, environ, login, cmd, pwd,
                   prepared_env, envIdx, envvec, image, eintr>>
    /\ UNCHANGED <<data, convVars>>

\* The names put into the PAM environment so far by process p.
PamEnv(p) ==
    LET puts == SelectSeq(log[p], LAMBDA e : e.op = "putenv" /\ e.ok)
    IN  [i \in 1..Len(puts) |-> puts[i].arg]

\* lines 222-223
Getenvlist(p) ==
    /\ pc[p] = "getenvlist"
    /\ \E ok \in BOOLEAN :
         /\ Logged(p, "getenvlist", "", ok)
         /\ IF ok THEN envvec' = PamEnv(p) /\ Goto(p, "fork") /\ UNCHANGED err
                  ELSE envvec' = envvec /\ ReturnErr(p, "getenvlist")
    /\ UNCHANGED <<sent, sockState, environ, login, cmd, pwd, prepared_env,
                   envIdx, command, image, eintr>>
    /\ UNCHANGED <<data, convVars>>

\* lines 228-230: fork() fails, or returns in the worker and in the new child
Fork(p) ==
    /\ pc[p] = "fork"
    /\ pc["child"] = "unborn"
    /\ \E ok \in BOOLEAN :
         /\ Logged(p, "fork", "", ok)
         /\ IF ok THEN /\ pc' = [pc EXCEPT ![p] = "send_final_pid",
                                           !["child"] = "initgroups"]
                       /\ UNCHANGED err
                  ELSE ReturnErr(p, "unable to fork")
    /\ UNCHANGED <<sent, sockState, environ, login, cmd, pwd, prepared_env,
                   envIdx, command, envvec, image, eintr>>
    /\ UNCHANGED <<data, convVars>>

ChildStepUnchecked(p, at, op, next) ==
    /\ pc[p] = at
    /\ \E ok \in BOOLEAN :
         /\ Logged(p, op, "", ok)
         /\ Goto(p, next)
         /\ UNCHANGED err

\* One step of the child arm: `step(..).expect(..)`.
ChildStep(p, at, op, next) ==
    /\ pc[p] = at
    /\ \E ok \in BOOLEAN :
         /\ Logged(p, op, "", ok)
         /\ IF ok THEN Goto(p, next) /\ UNCHANGED err
                  ELSE ExpectFailed(p, op)

\* line 236
Initgroups(p) ==
    /\ ChildStep(p, "initgroups", "initgroups", "setgid")
    /\ UNCHANGED <<sent, sockState, environ, login, cmd, pwd, prepared_env,
                   envIdx, command, envvec, image, eintr>>
    /\ UNCHANGED <<data, convVars>>

\* line 237
Setgid(p) ==
    /\ ChildStep(p, "setgid", "setgid", "setuid")
    /\ UNCHANGED <<sent, sockState, environ, login, cmd, pwd, prepared_env,
                   envIdx, command, envvec, image, eintr>>
    /\ UNCHANGED <<data, convVars>>

\* line 238
Setuid(p) ==
    /\ ChildStep(p, "setuid", "setuid", "child_prctl")
    /\ UNCHANGED <<sent, sockState, environ, login, cmd, pwd, prepared_env,
                   envIdx, command, envvec, image, eintr>>
    /\ UNCHANGED <<data, convVars>>

\* line 242
ChildPrctl(p) ==
    /\ ChildStep(p, "child_prctl", "prctl", "execve")
    /\ UNCHANGED <<sent, sockState, environ, login, cmd, pwd, prepared_env,
                   envIdx, command, envvec, image, eintr>>
    /\ UNCHANGED <<data, convVars>>

\* lines 245-257: CString::new(command).unwrap() panics on an interior NUL;
\* a successful execve replaces the process image and never returns
Execve(p) ==
    /\ pc[p] = "execve"
    /\ IF HasNul(cmd)
       THEN ExpectFailed(p, "CString::new") /\ UNCHANGED <<log, image>>
       ELSE \E ok \in BOOLEAN :
              /\ Logged(p, "execve", "/bin/sh", ok)
              /\ IF ok THEN /\ image' = <<"/bin/sh", "-c", command>>
                            /\ Goto(p, "running")
                            /\ UNCHANGED err
                       ELSE image' = image /\ ExpectFailed(p, "unable to exec")
    /\ UNCHANGED <<sent, sockState, environ, login, cmd, pwd, prepared_env,
                   envIdx, command, envvec, eintr>>
    /\ UNCHANGED <<data, convVars>>

\* The program the child exec'd terminates.
ChildExit(p) ==
    /\ pc[p] = "running"
    /\ Goto(p, "terminated")
    /\ UNCHANGED <<err, log, sent, sockState, environ, login, cmd, pwd,
                   prepared_env, envIdx, command, envvec, image, eintr>>
    /\ UNCHANGED <<data, convVars>>

----------------------------------------------------------------------------
(* worker(), lines 261-291: the worker after fork                          *)

\* line 262
SendFinalChildPid(p) ==
    /\ SendOrReturn(p, "send_final_pid", "FinalChildPid", "shutdown")
    /\ UNCHANGED <<sockState, environ, login, cmd, pwd, prepared_env, envIdx,
                   command, envvec, image, eintr>>
    /\ UNCHANGED <<data, convVars>>

\* line 263
Shutdown(p) ==
    /\ pc[p] = "shutdown"
    /\ \E ok \in BOOLEAN :
         /\ Logged(p, "shutdown", "Both", ok)
         /\ IF ok THEN /\ sockState' = "shutdown"
                       /\ Goto(p, "prctl")
                       /\ UNCHANGED err
                  ELSE sockState' = sockState /\ ReturnErr(p, "shutdown")
    /\ UNCHANGED <<sent, environ, login, cmd, pwd, prepared_env, envIdx,
                   command, envvec, image, eintr>>
    /\ UNCHANGED <<data, convVars>>

\* line 267
Prctl(p) ==
    /\ Call(p, "prctl", "prctl", "SET_PDEATHSIG", "waitpid")
    /\ UNCHANGED <<sent, sockState, environ, login, cmd, pwd, prepared_env,
                   envIdx, command, envvec, image, eintr>>
    /\ UNCHANGED <<data, convVars>>

ChildGoneAlways == TRUE

\* The forked child is no longer running.
ChildGone == pc["child"] \in {"terminated", "panicked", "exit_err", "ret_ok"}

AfterWaitEintrBreaks(outcome) == "close_session"

\* lines 271-278: the arms of the match on waitpid's result: `continue` on
\* EINTR, `break` (on to line 286) otherwise.
AfterWait(outcome) == IF outcome = "EINTR" THEN "waitpid" ELSE "close_session"

\* lines 270-279: one call of waitpid
Waitpid(p) ==
    /\ pc[p] = "waitpid"
    /\ \/ /\ eintr < MaxEintr                  \* Err(EINTR) => continue
          /\ eintr' = eintr + 1
          /\ Logged(p, "waitpid", "EINTR", FALSE)
          /\ Goto(p, AfterWait("EINTR"))
       \/ /\ Logged(p, "waitpid", "Err", FALSE)   \* Err(e) => break
          /\ Goto(p, AfterWait("Err"))
          /\ UNCHANGED eintr
       \/ /\ ChildGone                         \* Ok(_) => break
          /\ Logged(p, "waitpid", "Ok", TRUE)
          /\ Goto(p, AfterWait("Ok"))
          /\ UNCHANGED eintr
    /\ UNCHANGED <<err, sent, sockState, environ, login, cmd, pwd, prepared_env,
                   envIdx, command, envvec, image>>
    /\ UNCHANGED <<data, convVars>>

\* line 286
CloseSession(p) ==
    /\ Call(p, "close_session", "close_session", "NONE", "setcred_delete")
    /\ UNCHANGED <<sent, sockState, environ, login, cmd, pwd, prepared_env,
                   envIdx, command, envvec, image, eintr>>
    /\ UNCHANGED <<data, convVars>>

\* line 287
SetcredDelete(p) ==
    /\ Call(p, "setcred_delete", "setcred", "DELETE_CRED", "end")
    /\ UNCHANGED <<sent, sockState, environ, login, cmd, pwd, prepared_env,
                   envIdx, command, envvec, image, eintr>>
    /\ UNCHANGED <<data, convVars>>

\* lines 288-290, 297-299: end(), worker() returns Ok(()), main() returns Ok(())
End(p) ==
    /\ Call(p, "end", "end", "", "ret_ok")
    /\ UNCHANGED <<sent, sockState, environ, login, cmd, pwd, prepared_env,
                   envIdx, command, envvec, image, eintr>>
    /\ UNCHANGED <<data, convVars>>

----------------------------------------------------------------------------
(* main(), lines 293-300                                                   *)

\* lines 294-296: worker() returned Err(e): send Error(e), then return an Err
\* (e itself, or the send's own error).
MainSendError(p) ==
    /\ pc[p] = "main_err"
    /\ \E ok \in BOOLEAN :
         /\ send(p, "Error", err[p], ok)
         /\ Goto(p, "exit_err")
    /\ UNCHANGED <<err, sockState, environ, login, cmd, pwd, prepared_env,
                   envIdx, command, envvec, image, eintr>>
    /\ UNCHANGED <<data, convVars>>

----------------------------------------------------------------------------

----------------------------------------------------------------------------
(* converse(), pam/ffi.rs lines 23-105                                     *)

PamMessageStyle == {"PROMPT_ECHO_ON", "PROMPT_ECHO_OFF", "ERROR_MSG", "TEXT_INFO"}

IsPrompt(style) == style \in {"PROMPT_ECHO_ON", "PROMPT_ECHO_OFF"}

\* A native message: its style and whether its text is valid UTF-8.
NativeMessages == [msg_style : PamMessageStyle, utf8 : BOOLEAN]

RECURSIVE Batches(_)
\* All batches of exactly n native messages.
Batches(n) ==
    IF n = 0 THEN {<<>>}
    ELSE {Append(b, m) : b \in Batches(n - 1), m \in NativeMessages}

\* The handler capability a style is dispatched to (lines 53-82).
Capability(style) ==
    CASE style = "PROMPT_ECHO_ON" -> "prompt_echo"
      [] style = "PROMPT_ECHO_OFF" -> "prompt_blind"
      [] style = "ERROR_MSG" -> "error"
      [] style = "TEXT_INFO" -> "info"

\* What a handler capability can answer: Err, or Ok; a prompt's Ok carries a
\* text, which may hold an interior NUL byte.
HandlerOutcomes(style) ==
    IF IsPrompt(style) THEN {"Err", "Ok", "OkWithNul"} ELSE {"Err", "Ok"}

Array == <<"array", 0>>
Str(i) == <<"str", i>>

\* lines 30-37: calloc of the response array
ConvCalloc ==
    /\ cpc = "calloc"
    /\ \E ok \in BOOLEAN :
         IF ok
         THEN /\ resp' = [i \in 1..num_msg |-> "NULL"]
              /\ heap' = {Array}
              /\ cpc' = IF num_msg = 0 THEN "cleanup" ELSE "loop"
              /\ UNCHANGED ret
         ELSE /\ ret' = "BUF_ERR"
              /\ cpc' = "returned"
              /\ UNCHANGED <<resp, heap>>
    /\ idx' = 1
    /\ result' = "SUCCESS"
    /\ UNCHANGED <<num_msg, msg, out_resp, calls>>
    /\ UNCHANGED workerVars

AfterIterationNoBreak(res) == IF idx = num_msg THEN "cleanup" ELSE "loop"

\* After iteration idx: `break` when result is no longer SUCCESS (lines 83-85)
\* or when the range 0..num_msg is exhausted.
AfterIteration(res) ==
    IF res # "SUCCESS" \/ idx = num_msg THEN "cleanup" ELSE "loop"

\* lines 40-86: one iteration of the loop
ConvMessage ==
    /\ cpc = "loop"
    /\ idx <= num_msg
    /\ LET m == msg[idx] IN
       IF ~m.utf8
       THEN \* lines 45-51: to_str() failed
            /\ result' = "CONV_ERR"
            /\ cpc' = "cleanup"
            /\ UNCHANGED <<resp, heap, calls, idx>>
       ELSE \E answer \in HandlerOutcomes(m.msg_style), strdup_ok \in BOOLEAN :
            /\ calls' = Append(calls, [cap |-> Capability(m.msg_style), i |-> idx,
                                       ok |-> answer # "Err"])
            /\ IF answer = "Err"
               THEN \* lines 59-61, 68-70, 73-75, 78-80
                    /\ result' = "CONV_ERR"
                    /\ cpc' = AfterIteration("CONV_ERR")
                    /\ idx' = IF AfterIteration("CONV_ERR") = "loop"
                              THEN idx + 1 ELSE idx
                    /\ UNCHANGED <<resp, heap>>
               ELSE IF answer = "OkWithNul"
               THEN \* lines 56-57, 65-66: CString::new(..).expect(..) panics
                    /\ cpc' = "panicked"
                    /\ UNCHANGED <<resp, heap, idx, result>>
               ELSE /\ IF IsPrompt(m.msg_style)
                       THEN \* lines 58, 67: r.resp = strdup(..)
                            IF strdup_ok
                            THEN /\ resp' = [resp EXCEPT ![idx] = "str"]
                                 /\ heap' = heap \cup {Str(idx)}
                            ELSE UNCHANGED <<resp, heap>>
                       ELSE UNCHANGED <<resp, heap>>
                    /\ cpc' = AfterIteration(result)
                    /\ idx' = IF AfterIteration(result) = "loop"
                              THEN idx + 1 ELSE idx
                    /\ UNCHANGED result
    /\ UNCHANGED <<num_msg, msg, out_resp, ret>>
    /\ UNCHANGED workerVars

\* lines 88-104: free everything on an error, hand the array over on success
ConvReturn ==
    /\ cpc = "cleanup"
    /\ IF result # "SUCCESS"
       THEN /\ heap' = (heap \ {Str(i) : i \in {j \in 1..num_msg : resp[j] # "NULL"}})
                         \ {Array}
            /\ UNCHANGED out_resp
       ELSE /\ out_resp' = "resp"
            /\ UNCHANGED heap
    /\ ret' = result
    /\ cpc' = "returned"
    /\ UNCHANGED <<num_msg, msg, resp, idx, result, calls>>
    /\ UNCHANGED workerVars

----------------------------------------------------------------------------

WorkerInit ==
    /\ pc = [p \in Procs |-> IF p = "worker" THEN "recv_init" ELSE "unborn"]
    /\ err = [p \in Procs |-> "none"]
    /\ log = [p \in Procs |-> <<>>]
    /\ sent = <<>>
    /\ sockState = "open"
    /\ environ \in [GREETD_SOCK : BOOLEAN, TERM : BOOLEAN]
    /\ login = BlankPayload("none")
    /\ cmd = NoArgs
    /\ pwd = ""
    /\ prepared_env = <<>>
    /\ envIdx = 1
    /\ command = ""
    /\ envvec = <<>>
    /\ image = <<>>
    /\ eintr = 0
    /\ data = NoData

\* No conversation in progress.
ConvIdle ==
    /\ cpc = "idle"
    /\ num_msg = 0
    /\ msg = <<>>
    /\ resp = <<>>
    /\ idx = 1
    /\ result = "SUCCESS"
    /\ heap = {}
    /\ out_resp = "unwritten"
    /\ ret = "none"
    /\ calls = <<>>

Init == WorkerInit /\ ConvIdle

Next ==
    \E p \in Procs :
        \/ SockRecv(p)
        \/ RecvInitiateLogin(p)
        \/ PamStart(p)
        \/ Authenticate(p)
        \/ AcctMgmt(p)
        \/ SetcredEstablish(p)
        \/ SendAuthSuccess(p)
        \/ RecvArgs(p)
        \/ SendArgsSuccess(p)
        \/ RecvStart(p)
        \/ GetUser(p)
        \/ GetUserByName(p)
        \/ Setsid(p)
        \/ SetItemTty(p)
        \/ PutenvVtnr(p)
        \/ TermOpen(p)
        \/ KdSetmode(p)
        \/ TermClear(p)
        \/ VtGetCurrent(p)
        \/ VtSetactivate(p)
        \/ TermConnectPipes(p)
        \/ TermTakeCtty(p)
        \/ ChdirHome(p)
        \/ ChdirRoot(p)
        \/ PrepareEnv(p)
        \/ Putenv(p)
        \/ OpenSession(p)
        \/ BuildCommand(p)
        \/ Getenvlist(p)
        \/ Fork(p)
        \/ Initgroups(p)
        \/ Setgid(p)
        \/ Setuid(p)
        \/ ChildPrctl(p)
        \/ Execve(p)
        \/ ChildExit(p)
        \/ SendFinalChildPid(p)
        \/ Shutdown(p)
        \/ Prctl(p)
        \/ Waitpid(p)
        \/ CloseSession(p)
        \/ SetcredDelete(p)
        \/ End(p)
        \/ MainSendError(p)

Spec == Init /\ [][Next]_vars

\* The worker and the forked child are running processes: a process that can
\* take a step eventually takes one (a receipt returns once the parent has
\* sent, the launched program ends at some point).
FairSpec == Spec /\ WF_vars(Next)

\* The native layer calls converse() with some batch; the worker is not
\* running its own code meanwhile.
ConvInit ==
    /\ WorkerInit
    /\ environ = [GREETD_SOCK |-> TRUE, TERM |-> TRUE]
    /\ cpc = "calloc"
    /\ num_msg \in 0..MaxMsgs
    /\ msg \in Batches(num_msg)
    /\ resp = <<>>
    /\ idx = 1
    /\ result = "SUCCESS"
    /\ heap = {}
    /\ out_resp = "unwritten"
    /\ ret = "none"
    /\ calls = <<>>

ConvNext == ConvCalloc \/ ConvMessage \/ ConvReturn

ConvSpec == ConvInit /\ [][ConvNext]_vars

----------------------------------------------------------------------------
(* Properties of the session worker                                        *)

W == log["worker"]

K == log["child"]

IsPrefix(a, b) == Len(a) <= Len(b) /\ SubSeq(b, 1, Len(a)) = a

\* The message awaited by the k-th receipt of worker().
Awaited(k) == CASE k = 1 -> "InitiateLogin" [] k = 2 -> "Args" [] OTHER -> "Start"

\* Entry i of the worker's log is its RecvRank(i)-th receipt.
RecvRank(i) == Cardinality({j \in 1..i : W[j].op = "recv"})

Decoded(i) == W[i].op = "recv" /\ W[i].ok

OutOfOrder(i) == Decoded(i) /\ W[i].arg \notin {Awaited(RecvRank(i)), "Cancel"}

Failed == pc["worker"] \in {"main_err", "exit_err"}

\* C1: in each awaiting state a decoded message other than the awaited one or
\* Cancel makes worker() return the protocol-mismatch error of that state, and
\* the worker sends neither Success nor FinalChildPid after that receipt.
C1_OutOfOrderIsFatal ==
    \A i \in DOMAIN W :
        OutOfOrder(i) =>
            /\ Failed
            /\ err["worker"] = Mismatch(Awaited(RecvRank(i)))
            /\ \A j \in (i + 1)..Len(W) :
                   ~(W[j].op = "send" /\ W[j].arg \in {"Success", "FinalChildPid"})
            /\ \A k \in DOMAIN sent :
                   sent[k].kind \in {"Success", "FinalChildPid"} => k < RecvRank(i)

\* Start arrived while Args was awaited, and the worker has exited.
C1_Witness ==
    /\ pc["worker"] = "exit_err"
    /\ \E i \in DOMAIN W : OutOfOrder(i) /\ RecvRank(i) = 2 /\ W[i].arg = "Start"

\* C2: a Cancel received in an awaiting state ends the attempt with the
\* failure "cancelled" and nothing but main()'s Error send follows it; after
\* Start was accepted worker() receives nothing any more.
C2_CancelIsTerminal ==
    /\ \A i \in DOMAIN W :
           (Decoded(i) /\ W[i].arg = "Cancel") =>
               /\ Failed
               /\ err["worker"] = "cancelled"
               /\ \A j \in (i + 1)..Len(W) : W[j].op = "send" /\ W[j].arg = "Error"
    /\ \A i \in DOMAIN W :
           (Decoded(i) /\ W[i].arg = "Start" /\ RecvRank(i) = 3) =>
               \A j \in (i + 1)..Len(W) : W[j].op # "recv"

\* Cancel arrived while Start was awaited, and the worker has exited.
C2_Witness ==
    /\ pc["worker"] = "exit_err"
    /\ \E i \in DOMAIN W : Decoded(i) /\ W[i].arg = "Cancel" /\ RecvRank(i) = 3

\* C3: whenever the worker process ends in failure, main() has sent an Error
\* message to the parent.
C3_FailureIsReported ==
    pc["worker"] \in {"exit_err", "panicked"} =>
        \E i \in DOMAIN W : W[i].op = "send" /\ W[i].arg = "Error"

SentKinds == [i \in DOMAIN sent |-> sent[i].kind]

\* C4: the messages delivered to the parent are Success, Success,
\* FinalChildPid, or a prefix of Success, Success followed by one Error;
\* never both a FinalChildPid and an Error.
C4_SuccessOrError ==
    \/ IsPrefix(SentKinds, <<"Success", "Success", "FinalChildPid">>)
    \/ \E n \in 0..2 :
           SentKinds = SubSeq(<<"Success", "Success">>, 1, n) \o <<"Error">>

ChildOrder == <<"initgroups", "setgid", "setuid", "prctl", "execve">>

\* C7: the forked child runs initgroups, setgid, setuid, prctl, execve in this
\* order, each only after all earlier ones succeeded, and what it exec's is
\* /bin/sh -c <command>.
C7_PrivilegeDropOrder ==
    /\ IsPrefix([i \in DOMAIN K |-> K[i].op], ChildOrder)
    /\ \A i \in DOMAIN K : i < Len(K) => K[i].ok
    /\ image # <<>> =>
           /\ Len(K) = Len(ChildOrder)
           /\ \A i \in DOMAIN K : K[i].ok
           /\ image = <<"/bin/sh", "-c", command>>

\* The child has exec'd the command.
C7_Witness == pc["child"] = "running" /\ image # <<>>

ChildArm ==
    {"unborn", "initgroups", "setgid", "setuid", "child_prctl", "execve",
     "running", "terminated", "panicked"}

\* C8: a failing step of the child arm ends the child at once: the child
\* never sends on the socket, shuts it down, waits, or tears PAM down.
C8_ChildNeverReturns ==
    /\ pc["child"] \in ChildArm
    /\ \A i \in DOMAIN K :
           K[i].op \notin {"send", "shutdown", "waitpid", "close_session",
                           "setcred", "end"}
    /\ \A k \in DOMAIN sent : sent[k].from # "child"
    /\ (K # <<>> /\ ~K[Len(K)].ok) => pc["child"] = "panicked"

\* setuid failed in the child.
C8_Witness ==
    /\ pc["child"] = "panicked"
    /\ Len(K) = 3
    /\ ~K[3].ok

\* The baseline putenv calls among the first n entries of the worker's log.
BaselinePuts(n) ==
    SelectSeq(SubSeq(W, 1, n),
              LAMBDA e : e.op = "putenv" /\ e.arg # "XDG_VTNR")

\* C9: open_session is called only after the nine baseline variables were
\* put, in the fixed order, each successfully; after a failed putenv
\* open_session is never called, and no putenv follows open_session.
C9_EnvBeforeOpenSession ==
    /\ \A i \in DOMAIN W :
           W[i].op = "open_session" =>
               /\ [k \in DOMAIN BaselinePuts(i) |-> BaselinePuts(i)[k].arg]
                      = PreparedNames
               /\ \A k \in DOMAIN BaselinePuts(i) : BaselinePuts(i)[k].ok
               /\ \A j \in (i + 1)..Len(W) : W[j].op # "putenv"
    /\ (\E i \in DOMAIN W : W[i].op = "putenv" /\ ~W[i].ok) =>
           \A j \in DOMAIN W : W[j].op # "open_session"

\* open_session has been called.
C9_Witness == \E i \in DOMAIN W : W[i].op = "open_session" /\ W[i].ok

\* The calls that must precede the first Success.
AuthSteps ==
    <<[op |-> "recv", arg |-> "InitiateLogin", ok |-> TRUE],
      [op |-> "start", arg |-> "", ok |-> TRUE]>>
    \o (IF login.authenticate
        THEN <<[op |-> "authenticate", arg |-> "NONE", ok |-> TRUE]>>
        ELSE <<>>)
    \o <<[op |-> "acct_mgmt", arg |-> "NONE", ok |-> TRUE],
         [op |-> "setcred", arg |-> "ESTABLISH_CRED", ok |-> TRUE]>>

AuthFailure(e) ==
    /\ ~e.ok
    /\ \/ e.op \in {"start", "authenticate", "acct_mgmt"}
       \/ e.op = "setcred" /\ e.arg = "ESTABLISH_CRED"

\* C10: the first Success is sent only after start, authenticate (exactly
\* when the flag is set), acct_mgmt and setcred(ESTABLISH_CRED) succeeded in
\* this order; when one of them fails the worker sends no Success, accepts no
\* Args or Start, and main() sends Error before the worker exits.
C10_SuccessAfterAuth ==
    /\ \A i \in DOMAIN W :
           (W[i].op = "send" /\ W[i].arg = "Success") =>
               IsPrefix(AuthSteps, SubSeq(W, 1, i - 1))
    /\ \A i \in DOMAIN W :
           AuthFailure(W[i]) =>
               /\ Failed
               /\ \A j \in DOMAIN W :
                      /\ ~(W[j].op = "send" /\ W[j].arg = "Success")
                      /\ ~(W[j].op = "recv" /\ W[j].arg \in {"Args", "Start"})
               /\ \A k \in DOMAIN sent : sent[k].kind # "Success"
               /\ pc["worker"] = "exit_err" =>
                      /\ i + 1 = Len(W)
                      /\ W[Len(W)].op = "send" /\ W[Len(W)].arg = "Error"
                      /\ W[Len(W)].ok =>
                             sent = <<[from |-> "worker", kind |-> "Error",
                                       detail |-> W[i].op]>>

\* authenticate failed and the worker has exited after reporting it.
C10_Witness ==
    /\ pc["worker"] = "exit_err"
    /\ \E i \in DOMAIN W : W[i].op = "authenticate" /\ ~W[i].ok
    /\ Len(sent) = 1

\* Nothing has gone wrong so far: the socket address is set, the parent's
\* messages came in the awaited order, every call made by the worker and the
\* child succeeded (an interrupted wait is no failure) and no process failed.
HappyPath ==
    /\ environ.GREETD_SOCK
    /\ \A i \in DOMAIN W :
           /\ W[i].ok \/ (W[i].op = "waitpid" /\ W[i].arg = "EINTR")
           /\ W[i].op = "recv" => W[i].arg = Awaited(RecvRank(i))
    /\ \A i \in DOMAIN K : K[i].ok
    /\ pc["worker"] \notin {"main_err", "exit_err", "panicked"}
    /\ pc["child"] # "panicked"

Teardown ==
    <<[op |-> "waitpid", arg |-> "Ok", ok |-> TRUE],
      [op |-> "close_session", arg |-> "NONE", ok |-> TRUE],
      [op |-> "setcred", arg |-> "DELETE_CRED", ok |-> TRUE],
      [op |-> "end", arg |-> "", ok |-> TRUE]>>

\* C11: on the happy path the worker is past the wait only when the launched
\* child has terminated, it has then delivered exactly Success, Success,
\* FinalChildPid, it ends with Ok right after the teardown, and it does end.
C11_HappyPath ==
    /\ [](HappyPath =>
            /\ pc["worker"] \in {"close_session", "setcred_delete", "end", "ret_ok"}
                   => /\ pc["child"] = "terminated"
                      /\ SentKinds = <<"Success", "Success", "FinalChildPid">>
            /\ pc["worker"] = "ret_ok"
                   => /\ Len(W) >= 4
                      /\ SubSeq(W, Len(W) - 3, Len(W)) = Teardown
                      /\ err["worker"] = "none")
    /\ <>(~HappyPath \/ pc["worker"] = "ret_ok")

\* The worker has finished with Ok on the happy path, after an interrupted wait.
C11_Witness ==
    /\ HappyPath
    /\ pc["worker"] = "ret_ok"
    /\ eintr > 0

\* set_current_dir(home) has failed and the fallback has been tried.
HomeUnusable ==
    /\ \E i \in DOMAIN W :
           W[i].op = "set_current_dir" /\ W[i].arg = "home" /\ ~W[i].ok
    /\ pc["worker"] # "chdir_root"

RootEntry(ok) == [op |-> "set_current_dir", arg |-> "/", ok |-> ok]

WdError == "unable to set working directory"

\* C12 as claimed: when the home directory cannot be made current the working
\* directory resolves to "/" and the step raises no failure.
C12_FallbackNeverFails ==
    HomeUnusable => pwd = "/" /\ err["worker"] # WdError

\* C12 as amended: when the home directory cannot be made current, "/" is
\* tried; if that succeeds the working directory and the PWD value prepared
\* for PAM are "/" and the step raises no failure; if that fails too, worker()
\* fails with "unable to set working directory" and puts no variable.
C12_FallbackToRoot ==
    HomeUnusable =>
        \/ /\ \E i \in DOMAIN W : W[i] = RootEntry(TRUE)
           /\ pwd = "/"
           /\ err["worker"] # WdError
           /\ prepared_env # <<>> =>
                  \E k \in DOMAIN prepared_env :
                      /\ prepared_env[k] = [name |-> "PWD", value |-> "/"]
                      /\ \A j \in DOMAIN prepared_env :
                             prepared_env[j].name = "PWD" => j = k
        \/ /\ \E i \in DOMAIN W : W[i] = RootEntry(FALSE)
           /\ Failed
           /\ err["worker"] = WdError
           /\ \A j \in DOMAIN W :
                  W[j].op \notin {"open_session", "fork"}
                  /\ ~(W[j].op = "putenv" /\ W[j].arg \in {PreparedNames[n] : n \in DOMAIN PreparedNames})

\* The home directory was unusable and PWD has been put into the PAM environment.
C12_Witness ==
    /\ HomeUnusable
    /\ \E i \in DOMAIN W : W[i].op = "putenv" /\ W[i].arg = "PWD" /\ W[i].ok

\* worker() has returned to main(), with Err or with Ok.
Returned == pc["worker"] \in {"main_err", "exit_err", "ret_ok"}

\* C13: without GREETD_SOCK in its environment the worker fails at the
\* environment construction with an error that main() sends to the parent,
\* and open_session is never called.
C13_MissingSockIsReported ==
    (/\ ~environ.GREETD_SOCK
     /\ \E i \in DOMAIN W : W[i].op = "set_current_dir" /\ W[i].ok
     /\ pc["worker"] # "prepare_env")
    => /\ Failed
       /\ pc["worker"] = "exit_err" =>
              \E i \in DOMAIN W : W[i].op = "send" /\ W[i].arg = "Error"
       /\ \A i \in DOMAIN W : W[i].op # "open_session"

\* C14: the socket is shut down after FinalChildPid was sent and before the
\* first wait, and after the shutdown the worker attempts no send and no
\* receipt on it.
C14_SilentAfterShutdown ==
    /\ \A i \in DOMAIN W :
           W[i].op = "waitpid" =>
               \E j \in 1..(i - 1) :
                   /\ W[j].op = "shutdown" /\ W[j].ok
                   /\ \E k \in 1..(j - 1) :
                          W[k].op = "send" /\ W[k].arg = "FinalChildPid" /\ W[k].ok
    /\ \A i \in DOMAIN W :
           (W[i].op = "shutdown" /\ W[i].ok) =>
               \A j \in (i + 1)..Len(W) : W[j].op \notin {"send", "recv"}

\* C19: once open_session has succeeded, worker() does not return before
\* close_session was called.
C19_SessionIsClosed ==
    (Returned /\ \E i \in DOMAIN W : W[i].op = "open_session" /\ W[i].ok)
    => \E j \in DOMAIN W : W[j].op = "close_session"

\* C20: once fork has produced the child, worker() does not return before
\* waitpid has reported the child's termination or a non-retryable error.
C20_ChildIsReaped ==
    (Returned /\ \E i \in DOMAIN W : W[i].op = "fork" /\ W[i].ok)
    => \E j \in DOMAIN W : W[j].op = "waitpid" /\ W[j].arg \in {"Ok", "Err"}

TeardownCalls ==
    <<[op |-> "close_session", arg |-> "NONE"],
      [op |-> "setcred", arg |-> "DELETE_CRED"],
      [op |-> "end", arg |-> ""]>>

\* The worker's log after its i-th entry.
After(i) == SubSeq(W, i + 1, Len(W))

\* C15: an interrupted wait is followed by another wait; the wait loop ends
\* only with Ok, when the child has terminated, or with another error; then
\* close_session, setcred(DELETE_CRED), end are called in this order, each
\* after the earlier ones succeeded, and only a failing teardown call (never
\* the wait error) makes the run fail.
C15_WaitAndTeardown ==
    \A i \in DOMAIN W :
        W[i].op = "waitpid" =>
            IF W[i].arg = "EINTR"
            THEN /\ i < Len(W) => W[i + 1].op = "waitpid"
                 /\ i = Len(W) => pc["worker"] = "waitpid"
            ELSE /\ W[i].arg = "Ok" => pc["child"] \in {"terminated", "panicked"}
                 /\ i = Len(W) => pc["worker"] = "close_session"
                 /\ \A k \in DOMAIN After(i) :
                        \/ /\ k <= Len(TeardownCalls)
                           /\ After(i)[k].op = TeardownCalls[k].op
                           /\ After(i)[k].arg = TeardownCalls[k].arg
                           /\ \A m \in 1..(k - 1) : After(i)[m].ok
                        \/ /\ k = Len(After(i))
                           /\ 1 < k /\ k <= Len(TeardownCalls) + 1
                           /\ After(i)[k].op = "send" /\ After(i)[k].arg = "Error"
                           /\ ~After(i)[k - 1].ok
                 /\ Failed =>
                        \E k \in DOMAIN After(i) :
                            /\ k <= Len(TeardownCalls)
                            /\ ~After(i)[k].ok
                            /\ err["worker"] = After(i)[k].op
                 /\ (Len(After(i)) = Len(TeardownCalls)
                     /\ \A k \in DOMAIN After(i) : After(i)[k].ok)
                    => pc["worker"] = "ret_ok" /\ err["worker"] = "none"

\* The wait was interrupted, then failed with another error, and the worker
\* finished with Ok after the teardown.
C15_Witness ==
    /\ pc["worker"] = "ret_ok"
    /\ \E i \in DOMAIN W :
           /\ W[i] = [op |-> "waitpid", arg |-> "Err", ok |-> FALSE]
           /\ i > 1 /\ W[i - 1].op = "waitpid" /\ W[i - 1].arg = "EINTR"

\* A datagram that is larger than the buffer, cut, or no encoding of a message.
BadDatagram(d) ==
    /\ d.io = "ok"
    /\ d.len + d.pad > BufLen \/ d.body # "json"

\* C16: in each awaiting state, a datagram that is larger than the buffer,
\* cut or malformed makes worker() return an error at once: the login attempt
\* is abandoned and no later state is entered.
C16_BadDatagramIsFatal ==
    [][(pc["worker"] \in RecvLocs /\ data # NoData /\ BadDatagram(data))
       => pc'["worker"] = "main_err"]_vars

IsTermCall(e) ==
    \/ e.op \in {"set_item", "Terminal::open", "kd_setmode", "term_clear",
                 "vt_get_current", "vt_setactivate", "term_connect_pipes",
                 "term_take_ctty"}
    \/ e.op = "putenv" /\ e.arg = "XDG_VTNR"

\* The terminal calls the worker has made, in order.
TermLog == SelectSeq(W, IsTermCall)

\* The terminal calls lines 139-162 make for the accepted terminal target,
\* given what vt_get_current reported.
TermPlan ==
    <<"set_item", "putenv", "Terminal::open", "kd_setmode", "term_clear">>
    \o (IF login.tty.switch
        THEN <<"vt_get_current">>
             \o (IF \E i \in DOMAIN TermLog :
                        TermLog[i].op = "vt_get_current" /\ TermLog[i].arg = "other"
                 THEN <<"vt_setactivate">> ELSE <<>>)
        ELSE <<>>)
    \o <<"term_connect_pipes", "term_take_ctty">>

IsBaselinePut(e) ==
    e.op = "putenv" /\ e.arg \in {PreparedNames[n] : n \in DOMAIN PreparedNames}

\* C17: with target Stdin no terminal call is made; with a Terminal target
\* the calls follow the plan in order (the target VT is activated exactly when
\* switch is set and the active VT is another one), each after the earlier
\* ones succeeded; a failing call ends worker() with that failure, and the
\* working directory, the baseline environment, open_session and fork come
\* only after the whole plan succeeded.
C17_TerminalPreparation ==
    LET T == TermLog
        plan == TermPlan
        n == Len(W)
    IN  /\ login.tty.kind # "Terminal" => T = <<>>
        /\ login.tty.kind = "Terminal" =>
               /\ IsPrefix([i \in DOMAIN T |-> T[i].op], plan)
               /\ \A i \in DOMAIN T : i < Len(T) => T[i].ok
               /\ (\E i \in DOMAIN W :
                       \/ W[i].op \in {"set_current_dir", "open_session", "fork"}
                       \/ IsBaselinePut(W[i]))
                  => Len(T) = Len(plan) /\ T[Len(T)].ok
        /\ \A i \in DOMAIN W :
               (IsTermCall(W[i]) /\ ~W[i].ok) =>
                   /\ Failed
                   /\ err["worker"] = W[i].op
                   /\ i >= n - 1
                   /\ i = n - 1 => W[n].op = "send" /\ W[n].arg = "Error"

\* A switch to the target VT was needed and made, and the terminal is taken.
C17_Witness ==
    /\ \E i \in DOMAIN W : W[i].op = "vt_setactivate" /\ W[i].ok
    /\ \E i \in DOMAIN W : W[i].op = "term_take_ctty" /\ W[i].ok
    /\ \E i \in DOMAIN W : W[i].op = "open_session"

----------------------------------------------------------------------------
(* Properties of converse()                                                *)

ConvOver == cpc \in {"returned", "panicked"}

\* C5: a call ends either with SUCCESS, the array handed over and a response
\* for every prompt, or with an error code, nothing handed over and every
\* allocation of the call freed.
C5_AllOrNothing ==
    ConvOver =>
        \/ /\ ret = "SUCCESS"
           /\ out_resp = "resp"
           /\ \A i \in 1..num_msg : IsPrompt(msg[i].msg_style) => resp[i] = "str"
        \/ /\ ret \in {"BUF_ERR", "CONV_ERR"}
           /\ out_resp = "unwritten"
           /\ heap = {}

\* C6: converse() never panics: every call ends by returning a native code.
C6_NeverPanics ==
    /\ cpc # "panicked"
    /\ ConvOver => ret \in {"SUCCESS", "BUF_ERR", "CONV_ERR"}

\* C18: the handler is called for the messages in array order, one call per
\* message, each through the capability of the message's style and only for
\* decodable text; once the response array is allocated, a failed decoding or
\* a failed handler call sets CONV_ERR,
\* ends the loop at that message and is the code returned, so that no
\* capability is invoked for a later message.
C18_InOrderUntilFirstFailure ==
    /\ Len(calls) <= num_msg
    /\ \A k \in DOMAIN calls :
           /\ calls[k].i = k
           /\ msg[k].utf8
           /\ calls[k].cap = Capability(msg[k].msg_style)
           /\ ~calls[k].ok => k = Len(calls) /\ k = idx /\ result = "CONV_ERR"
    /\ \A k \in 1..num_msg :
           ~msg[k].utf8 =>
               /\ idx <= k
               /\ (idx = k /\ cpc \in {"cleanup", "returned"} /\ ret # "BUF_ERR")
                  => result = "CONV_ERR"
    /\ result = "CONV_ERR" =>
           /\ cpc \in {"cleanup", "returned"}
           /\ Len(calls) <= idx
           /\ cpc = "returned" => ret = "CONV_ERR"

\* A batch of two whose first handler call failed: the call returned the
\* conversation error without touching the second message.
C18_Witness ==
    /\ cpc = "returned"
    /\ num_msg = 2
    /\ Len(calls) = 1
    /\ ~calls[1].ok
    /\ msg[2].utf8
    /\ ret = "CONV_ERR"

====
